---- MODULE Spec2Model ----
(***************************************************************************)
(* Raid detector of bot-destroyer-9000 (src/src/main.rs).                  *)
(*                                                                         *)
(* The gateway client spawns one task per inbound event.  Every task first *)
(* takes the write half of the single RwLock that guards the whole         *)
(* guild -> joins map, and keeps the guard until the handler returns.      *)
(* A task is modelled between its suspension points: the wait for the      *)
(* write lock (line 48 / 81) and the wait for the outbound kick call       *)
(* (line 64).  The code between two suspension points runs under the       *)
(* exclusive guard and is one step.                                        *)
(*                                                                         *)
(* The code only compares members for equality with the user of a removal  *)
(* event, so the members of a guild are numbered in the order in which     *)
(* their records are pushed.                                               *)
(*                                                                         *)
(* The fields id and calls of a record, the fields todo, issued, prev and   *)
(* behind of a task and the variables arrived, removals, kicks, marks,     *)
(* last are history only: the code never reads them.                       *)
(***************************************************************************)
EXTENDS Naturals, Integers, Sequences, FiniteSets, TLC

\* ---- program constants ----
DEFAULT_SEARCH_DUR == 30
MIN_USERS_JOIN == 8

\* ---- bounds of the model ----
MaxJoins == 9
MaxSideJoins == 1
MaxRemovals == 2
MaxClock == 60
MaxWindow == 3

Guilds == {1, 2}
Tasks == {1, 2}
Deltas == {DEFAULT_SEARCH_DUR}
Outcomes == {"ok", "err"}

\* users are numbered per guild in the order of their join events; a removal
\* event names one of the first users
Removable == {1, 2}

\* the number of join events the gateway delivers for guild g; MaxJoins
\* bounds the join events of all guilds together
JoinCap(g) == IF g = 1 THEN MaxJoins ELSE MaxSideJoins

VARIABLES clock, guilds_map, guilds_lock, task, arrived, removals, kicks, marks, last

vars == <<clock, guilds_map, guilds_lock, task, arrived, removals, kicks, marks, last>>

\* ---- data ----
UserJoinMoment(now, m, n) ==
    [instant |-> now, member |-> m, action_taken |-> FALSE, id |-> n, calls |-> 0]

IdleTask ==
    [pc |-> "idle", kind |-> "none", guild |-> 0, user |-> 0, now |-> 0, idx |-> 0,
     todo |-> 0, issued |-> 0, prev |-> "none", behind |-> {}]

\* what the last completed guild_member_removal did: the number of records
\* it dropped and the number of processed records of its user it kept
NoRemoval == [dropped |-> 0, spared |-> 0]

\* guilds_map.entry(g).or_insert(Vec::new())
Entry(map, g) == IF g \in DOMAIN map THEN map[g] ELSE << >>

\* mutant: one vector shared by every key instead of one vector per guild
StoreAll(map, g, joins) == [k \in (DOMAIN map) \cup {g} |-> joins]

\* the map after the entry of g has been created / overwritten with joins
Store(map, g, joins) ==
    [k \in (DOMAIN map) \cup {g} |-> IF k = g THEN joins ELSE map[k]]

\* mutant: < in place of <=
InSpanStrict(now, v) == now - v.instant < DEFAULT_SEARCH_DUR

\* mutant: the operands of the subtraction swapped
InSpanSwapped(now, v) == v.instant - now <= DEFAULT_SEARCH_DUR

\* joins.retain(|v| now - v.instant <= DEFAULT_SEARCH_DUR)
InSpan(now, v) == now - v.instant <= DEFAULT_SEARCH_DUR

\* mutant: the vector is rebuilt from fresh records instead of filtered in place
RetainRecentRebuild(joins, now) ==
    LET kept == SelectSeq(joins, LAMBDA v : InSpan(now, v))
    IN [i \in 1..Len(kept) |-> [kept[i] EXCEPT !.action_taken = FALSE]]

\* mutant: processed records are exempt from the eviction
RetainRecentKeepTaken(joins, now) ==
    SelectSeq(joins, LAMBDA v : v.action_taken \/ InSpan(now, v))

RetainRecent(joins, now) == SelectSeq(joins, LAMBDA v : InSpan(now, v))

\* mutant: == in place of !=
KeepOnRemovalEq(v, kicked) == v.action_taken \/ v.member = kicked

\* mutant: the action_taken disjunct is missing
KeepOnRemovalAny(v, kicked) == v.member # kicked

\* mutant: && in place of ||
KeepOnRemovalAnd(v, kicked) == v.action_taken /\ v.member # kicked

\* joins.retain(|v| v.action_taken || v.member.user != _kicked)
KeepOnRemoval(v, kicked) == v.action_taken \/ v.member # kicked

\* mutant: only the first record of the user is removed
RetainOnRemovalFirst(joins, kicked) ==
    LET S == {i \in 1..Len(joins) : ~KeepOnRemoval(joins[i], kicked)}
        f == IF S = {} THEN 0 ELSE CHOOSE i \in S : \A j \in S : i <= j
    IN IF f = 0 THEN joins
       ELSE SubSeq(joins, 1, f - 1) \o SubSeq(joins, f + 1, Len(joins))

\* the retain of line 84 over the whole vector
RetainOnRemoval(joins, kicked) == SelectSeq(joins, LAMBDA v : KeepOnRemoval(v, kicked))

\* mutant: only the pending records are counted
IsRaidPending(joins) ==
    Cardinality({i \in 1..Len(joins) : ~joins[i].action_taken}) >= MIN_USERS_JOIN

\* mutant: > in place of >=
IsRaidStrict(joins) == Len(joins) > MIN_USERS_JOIN

\* joins.len() >= MIN_USERS_JOIN
IsRaid(joins) == Len(joins) >= MIN_USERS_JOIN

\* mutant: the loop without "if !join.action_taken"
NextPendingAny(joins, from) == IF from <= Len(joins) THEN from ELSE 0

\* mutant: the vector is walked from its end
NextPendingLast(joins, from) ==
    LET S == {i \in from..Len(joins) : ~joins[i].action_taken}
    IN IF S = {} THEN 0 ELSE CHOOSE i \in S : \A j \in S : i >= j

\* the iterator of "for join in joins.iter_mut()": the first position at or
\* after from whose record passes "if !join.action_taken"; 0 when exhausted
NextPending(joins, from) ==
    LET S == {i \in from..Len(joins) : ~joins[i].action_taken}
    IN IF S = {} THEN 0 ELSE CHOOSE i \in S : \A j \in S : i <= j

\* kick_with_reason(...) is sent for the record at position i
IssueCall(joins, i) == [joins EXCEPT ![i].calls = @ + 1]

\* join.action_taken = true
MarkTaken(joins, i) == [joins EXCEPT ![i].action_taken = TRUE]

\* mutant: the record is marked only when the call succeeded
AfterCallOk(joins, i, outcome) ==
    IF outcome = "ok" THEN MarkTaken(joins, i) ELSE joins

\* "let _ = ...await; join.action_taken = true": the result of the call is
\* dropped and the record is marked
AfterCall(joins, i, outcome) == MarkTaken(joins, i)

\* mutant: the write guard is dropped before every call
LockAfterDropped(p, i) == 0

\* mutant: the write guard outlives the handler
LockAfterLeak(p, i) == p

\* the write guard guilds_map lives until the handler returns: the lock
\* stays with task p while the loop has a call to wait for (i > 0)
LockAfter(p, i) == IF i > 0 THEN p ELSE 0

\* the records of joins that pass "if !join.action_taken"
PendingCount(joins) == Cardinality({i \in 1..Len(joins) : ~joins[i].action_taken})

\* the processed records of user kicked
SparedCount(joins, kicked) ==
    Cardinality({i \in 1..Len(joins) : joins[i].action_taken /\ joins[i].member = kicked})

\* the join events delivered so far
Arrived == arrived[1] + arrived[2]

\* join tasks of guild g that have not pushed their record yet
Unpushed(g) ==
    Cardinality({p \in Tasks : task[p].pc = "start" /\ task[p].kind = "join"
                                /\ task[p].guild = g})

\* the number of records pushed to the window of g so far
Pushed(g) == arrived[g] - Unpushed(g)

\* the tasks of earlier events of guild g that still wait for the lock
Waiting(g) == {q \in Tasks : task[q].pc = "start" /\ task[q].guild = g}

\* task p has taken the lock: it is no longer ahead of any waiting task
Overtaken(t, p) == [q \in Tasks |-> [t[q] EXCEPT !.behind = @ \ {p}]]

\* mutant: the map is reached without taking the lock
CanAcquireUnlocked(p) == task[p].pc = "start"

\* the write lock can be taken by a task waiting at guilds_lock.write().await
CanAcquire(p) == task[p].pc = "start" /\ guilds_lock = 0

Init ==
    /\ clock = 0
    /\ guilds_map = << >>
    /\ guilds_lock = 0
    /\ task = [p \in Tasks |-> IdleTask]
    /\ arrived = [g \in Guilds |-> 0]
    /\ removals = 0
    /\ kicks = 0
    /\ marks = 0
    /\ last = NoRemoval

\* Instant::now() is monotonic; time passes between events
Tick ==
    /\ \E d \in Deltas :
          /\ clock + d <= MaxClock
          /\ clock' = clock + d
    /\ UNCHANGED <<guilds_map, guilds_lock, task, arrived, removals, kicks, marks, last>>

\* the gateway delivers a member-joined event; a task is spawned for it
DispatchJoin(p) ==
    /\ task[p].pc = "idle"
    /\ \E g \in Guilds :
          /\ arrived[g] < JoinCap(g)
          /\ Arrived < MaxJoins
          /\ arrived' = [arrived EXCEPT ![g] = @ + 1]
          /\ task' = [task EXCEPT ![p] =
                        [IdleTask EXCEPT !.pc = "start", !.kind = "join",
                                         !.guild = g, !.behind = Waiting(g)]]
    /\ UNCHANGED <<clock, guilds_map, guilds_lock, removals, kicks, marks, last>>

\* the gateway delivers a member-removed event; a task is spawned for it
DispatchRemoval(p) ==
    /\ task[p].pc = "idle"
    /\ removals < MaxRemovals
    /\ \E g \in Guilds, u \in Removable :
          task' = [task EXCEPT ![p] =
                     [IdleTask EXCEPT !.pc = "start", !.kind = "removal",
                                      !.guild = g, !.user = u,
                                      !.behind = Waiting(g)]]
    /\ removals' = removals + 1
    /\ UNCHANGED <<clock, guilds_map, guilds_lock, arrived, kicks, marks, last>>

\* guild_member_addition from the lock acquisition to its first suspension
\* inside the loop, or to its return when the loop issues nothing
JoinAcquire(p) ==
    /\ CanAcquire(p)
    /\ task[p].kind = "join"
    /\ LET g      == task[p].guild
           now    == clock
           member == IF task[p].user = 0 THEN Pushed(g) + 1 ELSE task[p].user
           pushedJ == Append(Entry(guilds_map, g),
                             UserJoinMoment(now, member, Pushed(g) + 1))
           joins  == RetainRecent(pushedJ, now)
           i      == IF IsRaid(joins) THEN NextPending(joins, 1) ELSE 0
       IN /\ guilds_lock' = LockAfter(p, i)
          /\ IF i > 0
             THEN /\ guilds_map' = Store(guilds_map, g, IssueCall(joins, i))
                  /\ kicks' = kicks + 1
                  /\ task' = Overtaken([task EXCEPT ![p].pc = "kick", ![p].now = now,
                                                   ![p].idx = i,
                                                   ![p].todo = PendingCount(joins),
                                                   ![p].issued = 1,
                                                   ![p].behind = {}], p)
             ELSE /\ guilds_map' = Store(guilds_map, g, joins)
                  /\ kicks' = kicks
                  /\ task' = Overtaken([task EXCEPT ![p] = IdleTask], p)
    /\ UNCHANGED <<clock, arrived, removals, marks, last>>

\* the outbound call returns (its result is dropped by "let _ ="); the record
\* is marked and the loop runs on to the next call or to the end
KickReturn(p) ==
    /\ task[p].pc = "kick"
    /\ guilds_lock = p
    /\ \E outcome \in Outcomes :
        LET g      == task[p].guild
            joins  == AfterCall(guilds_map[g], task[p].idx, outcome)
            i      == NextPending(joins, task[p].idx + 1)
        IN /\ marks' = marks + 1
           /\ guilds_lock' = LockAfter(p, i)
           /\ IF i > 0
              THEN /\ guilds_map' = Store(guilds_map, g, IssueCall(joins, i))
                   /\ kicks' = kicks + 1
                   /\ task' = [task EXCEPT ![p].idx = i, ![p].issued = @ + 1,
                                           ![p].prev = outcome]
              ELSE /\ guilds_map' = Store(guilds_map, g, joins)
                   /\ kicks' = kicks
                   /\ task' = [task EXCEPT ![p] = IdleTask]
    /\ UNCHANGED <<clock, arrived, removals, last>>

\* guild_member_removal from the lock acquisition to its return
RemovalAcquire(p) ==
    /\ CanAcquire(p)
    /\ task[p].kind = "removal"
    /\ LET g      == task[p].guild
           before == Entry(guilds_map, g)
           joins  == RetainOnRemoval(before, task[p].user)
       IN /\ guilds_map' = Store(guilds_map, g, joins)
          /\ last' = [dropped |-> Len(before) - Len(joins),
                      spared |-> SparedCount(joins, task[p].user)]
    /\ task' = Overtaken([task EXCEPT ![p] = IdleTask], p)
    /\ UNCHANGED <<clock, guilds_lock, arrived, removals, kicks, marks>>

Next ==
    \/ Tick
    \/ \E p \in Tasks : DispatchJoin(p)
    \/ \E p \in Tasks : DispatchRemoval(p)
    \/ \E p \in Tasks : JoinAcquire(p)
    \/ \E p \in Tasks : KickReturn(p)
    \/ \E p \in Tasks : RemovalAcquire(p)

Spec == Init /\ [][Next]_vars

TypeOK ==
    /\ clock \in 0..MaxClock
    /\ guilds_lock \in {0} \cup Tasks
    /\ DOMAIN guilds_map \subseteq Guilds
    /\ \A p \in Tasks : task[p].pc \in {"idle", "start", "kick"}

\* ---- vocabulary of the properties ----
Window(g) == Entry(guilds_map, g)

Ids(joins) == {joins[i].id : i \in 1..Len(joins)}

AllTaken(joins) == \A i \in 1..Len(joins) : joins[i].action_taken

\* task p runs guild_member_addition from line 48 on in this step
JoinStep(p) ==
    task[p].pc = "start" /\ task[p].kind = "join" /\ task'[p].pc # "start"

\* task p runs guild_member_removal from line 81 on in this step
RemovalStep(p) ==
    task[p].pc = "start" /\ task[p].kind = "removal" /\ task'[p].pc # "start"

\* task p returns from guild_member_addition after a pass of calls
ReturnStep(p) == task[p].pc = "kick" /\ task'[p].pc = "idle"

\* C1: a join handler issues no call when the count of records left after
\* the eviction is below MIN_USERS_JOIN; when the count is at least
\* MIN_USERS_JOIN it issues a call, and by its return it has issued one call
\* for every record that was pending at the check, so that every record of
\* the window, older ones included, is processed.
C1_ThresholdExact ==
    [][\A p \in Tasks :
         /\ JoinStep(p) =>
              LET joins == guilds_map'[task[p].guild]
              IN /\ Len(joins) < MIN_USERS_JOIN =>
                       /\ kicks' = kicks
                       /\ task'[p].pc = "idle"
                       /\ guilds_lock' = 0
                 /\ Len(joins) >= MIN_USERS_JOIN =>
                       /\ kicks' = kicks + 1
                       /\ task'[p].pc = "kick"
                       /\ task'[p].todo = PendingCount(joins)
                       /\ task'[p].todo >= 1
         /\ kicks' # kicks =>
              \E q \in Tasks : /\ guilds_lock' = q
                               /\ Len(guilds_map'[task'[q].guild]) >= MIN_USERS_JOIN
         /\ ReturnStep(p) =>
              LET joins == guilds_map'[task[p].guild]
              IN /\ task[p].issued = task[p].todo
                 /\ Len(joins) >= MIN_USERS_JOIN
                 /\ \A i \in 1..Len(joins) :
                        joins[i].action_taken /\ joins[i].calls = 1
      ]_vars

\* the eighth join of a window has triggered: all eight records, joined at
\* two different instants, are processed by eight calls
C1_Witness ==
    /\ guilds_lock = 0
    /\ kicks = MIN_USERS_JOIN
    /\ \E g \in DOMAIN guilds_map :
          /\ Len(guilds_map[g]) = MIN_USERS_JOIN
          /\ AllTaken(guilds_map[g])
          /\ guilds_map[g][1].instant < guilds_map[g][MIN_USERS_JOIN].instant

\* C2: when a join handler has evicted, and again when it returns, every
\* record of the window of its guild is at most DEFAULT_SEARCH_DUR older than
\* the instant the handler took.
C2_WindowEviction ==
    [][\A p \in Tasks :
         /\ JoinStep(p) =>
              LET joins == guilds_map'[task[p].guild]
              IN \A i \in 1..Len(joins) : clock - joins[i].instant <= DEFAULT_SEARCH_DUR
         /\ ReturnStep(p) =>
              LET joins == guilds_map'[task[p].guild]
              IN \A i \in 1..Len(joins) :
                    task[p].now - joins[i].instant <= DEFAULT_SEARCH_DUR
      ]_vars

\* a join handler has evicted: no removal event was delivered, and the window
\* holds fewer records than were pushed into it
C2_Witness ==
    /\ removals = 0
    /\ \E g \in DOMAIN guilds_map :
          /\ Len(guilds_map[g]) >= 1
          /\ Len(guilds_map[g]) < Pushed(g)
          /\ clock - guilds_map[g][1].instant <= DEFAULT_SEARCH_DUR

\* C3: while a join handler is suspended inside a kick / ban call, the lock
\* that guards the window is free.
C3_LockFreeDuringCall ==
    \A p \in Tasks : task[p].pc = "kick" => guilds_lock = 0

\* C4: while a join handler of guild A waits for its outbound call, a handler
\* of another guild B that waits for the lock can take it.
C4_OtherGuildNotBlocked ==
    \A p, q \in Tasks :
        (task[p].pc = "kick" /\ task[q].pc = "start" /\ task[q].guild # task[p].guild)
            => CanAcquire(q)

\* C5: at most one handler is inside the section that mutates the map, it is
\* the holder of the lock, and every change of a window is made either by the
\* holder of the lock or in a step taken while the lock was free.
C5_MutualExclusion ==
    /\ [](/\ Cardinality({p \in Tasks : task[p].pc = "kick"}) <= 1
          /\ \A p \in Tasks : task[p].pc = "kick" <=> guilds_lock = p)
    /\ [][guilds_map' # guilds_map =>
            \/ guilds_lock = 0
            \/ \E p \in Tasks : /\ guilds_lock = p
                                /\ task[p].pc = "kick"
                                /\ task'[p] # task[p]
         ]_vars

\* a handler holds the lock inside a call while a second handler of the same
\* guild waits for the lock
C5_Witness ==
    \E p, q \in Tasks :
        /\ task[p].pc = "kick"
        /\ task[q].pc = "start"
        /\ task[q].guild = task[p].guild

\* C6: a record whose action_taken is true keeps it true in every later
\* state in which the record is still in its window.
C6_MonotonicFlag ==
    [][guilds_map' # guilds_map =>
         \A g \in Guilds :
            LET w  == Entry(guilds_map, g)
                w2 == Entry(guilds_map', g)
            IN \A i \in 1..Len(w), j \in 1..Len(w2) :
                  (w[i].id = w2[j].id /\ w[i].action_taken) =>
                      /\ w2[j].action_taken
                      /\ w2[j].instant = w[i].instant
                      /\ w2[j].member = w[i].member
      ]_vars

\* a processed record of a user that removal events name has been through
\* a removal handler that kept such a record and through the eviction of a
\* join handler that took a later instant, and is still processed
C6_Witness ==
    /\ last.spared >= 1
    /\ \E g \in DOMAIN guilds_map :
          \E i, j \in 1..Len(guilds_map[g]) :
              /\ guilds_map[g][i].action_taken
              /\ guilds_map[g][i].member \in Removable
              /\ guilds_map[g][j].instant > guilds_map[g][i].instant

\* C7: a processed record leaves its window only in the eviction of a join
\* handler of its guild whose instant is more than DEFAULT_SEARCH_DUR after
\* the record's; a removal handler keeps every processed record, also those
\* of the user it names; and the eviction of a join handler removes every
\* processed record that is that old.
C7_ProcessedRetention ==
    [][guilds_map' # guilds_map => \A g \in Guilds :
         LET w  == Entry(guilds_map, g)
             w2 == Entry(guilds_map', g)
         IN /\ \A i \in 1..Len(w) :
                  (w[i].action_taken /\ w[i].id \notin Ids(w2)) =>
                      \E p \in Tasks : /\ JoinStep(p)
                                       /\ task[p].guild = g
                                       /\ clock - w[i].instant > DEFAULT_SEARCH_DUR
            /\ \A p \in Tasks :
                  (RemovalStep(p) /\ task[p].guild = g) =>
                      \A i \in 1..Len(w) :
                          w[i].action_taken => \E j \in 1..Len(w2) : w2[j] = w[i]
            /\ \A p \in Tasks :
                  (JoinStep(p) /\ task[p].guild = g) =>
                      \A i \in 1..Len(w) :
                          (w[i].action_taken /\ clock - w[i].instant > DEFAULT_SEARCH_DUR)
                              => w[i].id \notin Ids(w2)
      ]_vars

\* the last removal handler kept the processed record of the user it named,
\* and a later join handler has evicted that record: no window holds a
\* processed record of a user that removal events name
C7_Witness ==
    /\ last.spared >= 1
    /\ \E g \in DOMAIN guilds_map : Len(guilds_map[g]) >= 1
    /\ \A g \in DOMAIN guilds_map :
          \A i \in 1..Len(guilds_map[g]) :
              guilds_map[g][i].action_taken => guilds_map[g][i].member \notin Removable

\* C8: a removal handler for a user without a pending record leaves the
\* window as it was, and the window a removal handler leaves is a fixed point
\* of the removal of the same user; on every window, removing a user twice
\* gives what removing the user once gives.
C8_RemovalIdempotent ==
    /\ [](\A g \in DOMAIN guilds_map, u \in Removable :
             RetainOnRemoval(RetainOnRemoval(guilds_map[g], u), u)
                 = RetainOnRemoval(guilds_map[g], u))
    /\ [][\A p \in Tasks :
            RemovalStep(p) =>
                LET u  == task[p].user
                    w  == Entry(guilds_map, task[p].guild)
                    w2 == Entry(guilds_map', task[p].guild)
                IN /\ (\A i \in 1..Len(w) : w[i].member = u => w[i].action_taken)
                          => w2 = w
                   /\ RetainOnRemoval(w2, u) = w2
         ]_vars

\* two removal handlers have run; the record of a user was pushed and, with
\* no eviction and no call so far, is gone: the first removal handler dropped
\* it; the last removal handler found no pending record of its user and
\* dropped nothing
C8_Witness ==
    /\ clock = 0
    /\ kicks = 0
    /\ removals = 2
    /\ \A p \in Tasks : task[p].pc = "idle"
    /\ last.dropped = 0
    /\ \E g \in DOMAIN guilds_map, u \in Removable :
          /\ Pushed(g) >= u
          /\ Len(guilds_map[g]) >= 1
          /\ \A i \in 1..Len(guilds_map[g]) : guilds_map[g][i].member # u

\* C9: a step of a handler of guild A leaves the entry of every other guild
\* B as it was: the records of B, their number, their action_taken flags and
\* the calls issued for them.
C9_GuildIsolation ==
    [][\A p \in Tasks :
         (task'[p] # task[p] /\ task[p].pc \in {"start", "kick"}) =>
             \A b \in Guilds \ {task[p].guild} :
                 /\ (b \in DOMAIN guilds_map') = (b \in DOMAIN guilds_map)
                 /\ Entry(guilds_map', b) = Entry(guilds_map, b)
      ]_vars

\* guild 2 holds a pending record without a call that was pushed before the
\* last record of guild 1, and guild 1 has gone through a whole pass
C9_Witness ==
    /\ DOMAIN guilds_map = {1, 2}
    /\ Len(guilds_map[1]) >= MIN_USERS_JOIN
    /\ AllTaken(guilds_map[1])
    /\ Len(guilds_map[2]) >= 1
    /\ ~guilds_map[2][1].action_taken
    /\ guilds_map[2][1].calls = 0
    /\ guilds_map[2][1].instant < guilds_map[1][Len(guilds_map[1])].instant

\* C10: no record has more than one call; a processed record has exactly
\* one; a record with a call that is not yet marked is the one the holder of
\* the lock is waiting on; and the number of calls is the number of marks
\* plus the call in flight.
C10_OneCallPerRecord ==
    /\ \A g \in DOMAIN guilds_map :
          \A i \in 1..Len(guilds_map[g]) :
              LET v == guilds_map[g][i]
              IN /\ v.calls <= 1
                 /\ v.action_taken => v.calls = 1
                 /\ (v.calls = 1 /\ ~v.action_taken) =>
                        \E p \in Tasks : /\ guilds_lock = p
                                         /\ task[p].pc = "kick"
                                         /\ task[p].guild = g
                                         /\ task[p].idx = i
    /\ kicks = marks + Cardinality({p \in Tasks : task[p].pc = "kick"})

\* eight calls for the eighth join and one more for the ninth
C10_Witness ==
    /\ kicks = MIN_USERS_JOIN + 1
    /\ marks = MIN_USERS_JOIN + 1
    /\ \E g \in DOMAIN guilds_map :
          /\ Len(guilds_map[g]) = MIN_USERS_JOIN + 1
          /\ AllTaken(guilds_map[g])

\* task p resumes from the outbound call in this step
CallReturnStep(p) == task[p].pc = "kick" /\ task'[p] # task[p]

C12_DepartureNotCounted ==
    /\ [](\A g \in DOMAIN guilds_map :
             (clock = 0 /\ Pushed(g) <= MIN_USERS_JOIN /\ Len(guilds_map[g]) < Pushed(g))
                 => /\ \A i \in 1..Len(guilds_map[g]) : guilds_map[g][i].calls = 0
                    /\ \A p \in Tasks : ~(task[p].pc = "kick" /\ task[p].guild = g))
    /\ [][\A p \in Tasks :
            RemovalStep(p) =>
                LET w  == Entry(guilds_map, task[p].guild)
                    w2 == Entry(guilds_map', task[p].guild)
                IN \A i \in 1..Len(w) :
                      (w[i].member = task[p].user /\ ~w[i].action_taken) =>
                          /\ w[i].id \notin Ids(w2)
                          /\ w[i].calls = 0
         ]_vars

\* eight joins within the window, one of them reconciled away before the
\* eighth was recorded: seven records, no call
C12_Witness ==
    /\ clock = 0
    /\ kicks = 0
    /\ \A p \in Tasks : task[p].pc = "idle"
    /\ \E g \in DOMAIN guilds_map :
          /\ Pushed(g) = MIN_USERS_JOIN
          /\ Len(guilds_map[g]) = MIN_USERS_JOIN - 1
          /\ ~AllTaken(guilds_map[g])

\* C13: a join handler that finds every earlier record of its guild more
\* than DEFAULT_SEARCH_DUR old leaves a window of one record, the new one,
\* pending and without a call, and returns at once.
C13_ExpiryAfterRaid ==
    [][\A p \in Tasks :
         JoinStep(p) =>
             LET w  == Entry(guilds_map, task[p].guild)
                 w2 == guilds_map'[task[p].guild]
             IN (\A i \in 1..Len(w) : clock - w[i].instant > DEFAULT_SEARCH_DUR) =>
                    /\ Len(w2) = 1
                    /\ w2[1].instant = clock
                    /\ w2[1].id = Pushed(task[p].guild) + 1
                    /\ ~w2[1].action_taken
                    /\ w2[1].calls = 0
                    /\ kicks' = kicks
                    /\ task'[p].pc = "idle"
                    /\ guilds_lock' = 0
      ]_vars

\* the ninth join of a guild, after a pass over eight: alone in the window
C13_Witness ==
    /\ marks >= MIN_USERS_JOIN
    /\ \E g \in DOMAIN guilds_map :
          /\ Pushed(g) = MIN_USERS_JOIN + 1
          /\ Len(guilds_map[g]) = 1
          /\ guilds_map[g][1].instant = clock
          /\ ~guilds_map[g][1].action_taken

\* C15: the record a handler is waiting on is the first pending one: every
\* record before it is marked, every record after it is pending and has no
\* call yet.
C15_CallsInInsertionOrder ==
    \A p \in Tasks :
        task[p].pc = "kick" =>
            LET w == guilds_map[task[p].guild]
                i == task[p].idx
            IN /\ i \in 1..Len(w)
               /\ ~w[i].action_taken
               /\ w[i].calls = 1
               /\ \A j \in 1..(i - 1) : w[j].action_taken /\ w[j].id < w[i].id
               /\ \A j \in (i + 1)..Len(w) :
                     ~w[j].action_taken /\ w[j].calls = 0 /\ w[j].id > w[i].id

\* a pass in its middle: marked records before the call, pending ones after
C15_Witness ==
    \E p \in Tasks :
        /\ task[p].pc = "kick"
        /\ task[p].idx > 1
        /\ task[p].idx < Len(guilds_map[task[p].guild])
        /\ task[p].issued = task[p].idx

\* ---- the removal handler on the windows the join handlers can leave ----
\* the instants the clock takes
Instants == {t \in 0..MaxClock : t % DEFAULT_SEARCH_DUR = 0}

\* the users of the sampled records: those of Removable and one other
SampleMembers == Removable \cup {3}

\* what a join handler leaves: the processed records before the pending
\* ones (a pass marks every record), in the order of their instants, none
\* more than DEFAULT_SEARCH_DUR older than the last one
LeftByJoins(f) ==
    /\ \A i, j \in DOMAIN f : i < j =>
          /\ f[i].instant <= f[j].instant
          /\ f[j].instant - f[i].instant <= DEFAULT_SEARCH_DUR
          /\ f[j].action_taken => f[i].action_taken

\* the windows of at most MaxWindow records, one user possibly with several
SampleWindows ==
    UNION {{[i \in 1..n |-> [instant |-> f[i].instant, member |-> f[i].member,
                             action_taken |-> f[i].action_taken, id |-> i,
                             calls |-> IF f[i].action_taken THEN 1 ELSE 0]] :
               f \in {h \in [1..n -> [instant : Instants, member : SampleMembers,
                                      action_taken : BOOLEAN]] : LeftByJoins(h)}} :
           n \in 0..MaxWindow}

\* every handler has returned and guild 1 has one of the sampled windows
InitWindow ==
    /\ \E w \in SampleWindows, c \in Instants :
          /\ \A i \in 1..Len(w) : w[i].instant <= c
          /\ clock = c
          /\ guilds_map = [g \in {1} |-> w]
          /\ arrived = [g \in Guilds |-> IF g = 1 THEN Len(w) ELSE 0]
          /\ kicks = Len(w) - PendingCount(w)
          /\ marks = Len(w) - PendingCount(w)
    /\ guilds_lock = 0
    /\ task = [p \in Tasks |-> IdleTask]
    /\ removals = 0
    /\ last = NoRemoval

NextRemoval ==
    \/ Tick
    \/ \E p \in Tasks : DispatchRemoval(p)
    \/ \E p \in Tasks : RemovalAcquire(p)

SpecRemoval == InitWindow /\ [][NextRemoval]_vars

\* the scheduling the progress claim assumes: a call that was sent returns,
\* and a handler that waits at guilds_lock.write().await while the lock is
\* free again and again is let in
Fairness ==
    \A p \in Tasks :
        /\ WF_vars(KickReturn(p))
        /\ SF_vars(JoinAcquire(p))
        /\ SF_vars(RemovalAcquire(p))

\* the events of one burst: the handlers read the clock once and never wait
\* on it, so the passage of time is left out of the specification of progress
NextBurst ==
    \/ \E p \in Tasks : DispatchJoin(p)
    \/ \E p \in Tasks : DispatchRemoval(p)
    \/ \E p \in Tasks : JoinAcquire(p)
    \/ \E p \in Tasks : KickReturn(p)
    \/ \E p \in Tasks : RemovalAcquire(p)

FairBurst == Init /\ [][NextBurst]_vars /\ Fairness

\* C14: a handler changes the window of its guild only when no event that
\* was delivered for that guild before its own is still waiting for its turn.
C14_ArrivalOrderApplied ==
    [][\A p \in Tasks :
         (JoinStep(p) \/ RemovalStep(p)) => task[p].behind = {}
      ]_vars

\* C16: the holder of the lock never waits for a lock: it is suspended in an
\* outbound call, so some handler can always move; under the fairness above
\* every handler that was started returns, and the lock is then released.
C16_Progress ==
    /\ [](guilds_lock # 0 => task[guilds_lock].pc = "kick")
    /\ [](\A p \in Tasks : task[p].pc = "idle" => guilds_lock # p)
    /\ \A p \in Tasks : (task[p].pc # "idle") ~> (task[p].pc = "idle")
    /\ (guilds_lock # 0) ~> (guilds_lock = 0)

\* a handler waits for the lock while another holds it across its last call
C16_Witness ==
    \E p, q \in Tasks :
        /\ guilds_lock = p
        /\ task[p].pc = "kick"
        /\ task[p].issued = task[p].todo
        /\ task[q].pc = "start"
        /\ task[q].behind = {}

\* the records of joins that a handler reading the clock now keeps
LiveAt(joins) == SelectSeq(joins, LAMBDA v : clock - v.instant <= DEFAULT_SEARCH_DUR)

\* the fields of a record that the source declares
Declared(v) == [instant |-> v.instant, member |-> v.member, action_taken |-> v.action_taken]

\* C17: a join handler leaves in the window exactly the records that were
\* at most DEFAULT_SEARCH_DUR old, marked or not, a record of exactly that
\* age included, unchanged and in their order, followed by the new record;
\* all of them count at the test against MIN_USERS_JOIN.
C17_NoOverEviction ==
    [][\A p \in Tasks :
         JoinStep(p) =>
             LET w    == Entry(guilds_map, task[p].guild)
                 w2   == guilds_map'[task[p].guild]
                 live == LiveAt(w)
                 n    == Len(live)
             IN /\ Len(w2) = n + 1
                /\ \A i \in 1..n :
                      /\ w2[i].id = live[i].id
                      /\ Declared(w2[i]) = Declared(live[i])
                /\ w2[n + 1].id = Pushed(task[p].guild) + 1
                /\ w2[n + 1].instant = clock
                /\ ~w2[n + 1].action_taken
                /\ (n + 1 >= MIN_USERS_JOIN) <=> (task'[p].pc = "kick")
      ]_vars

\* a record that was marked and exactly DEFAULT_SEARCH_DUR old when the
\* latest join was recorded is still first in the window
C17_Witness ==
    \E g \in DOMAIN guilds_map :
        LET w == guilds_map[g]
        IN /\ Len(w) >= 2
           /\ w[1].action_taken
           /\ w[Len(w)].id = Pushed(g)
           /\ w[Len(w)].instant = clock
           /\ w[Len(w)].instant - w[1].instant = DEFAULT_SEARCH_DUR

\* C19: when a join handler returns from a pass, every record of the window
\* is marked; a join handler that finds at least MIN_USERS_JOIN - 1 marked
\* records still young enough finds no pending record among the young ones,
\* issues a call for the new record at once, and issues no other call.
C19_RaidStaysOpen ==
    [][\A p \in Tasks :
         LET g  == task[p].guild
             w  == Entry(guilds_map, g)
             w2 == guilds_map'[g]
         IN /\ ReturnStep(p) => (AllTaken(w2) /\ Len(w2) >= MIN_USERS_JOIN)
            /\ (JoinStep(p)
                /\ Len(LiveAt(w)) - PendingCount(LiveAt(w)) >= MIN_USERS_JOIN - 1)
               => /\ AllTaken(LiveAt(w))
                  /\ task'[p].pc = "kick"
                  /\ task'[p].idx = Len(w2)
                  /\ task'[p].todo = 1
                  /\ kicks' = kicks + 1
                  /\ w2[Len(w2)].calls = 1
                  /\ \A i \in 1..(Len(w2) - 1) : w2[i].calls = LiveAt(w)[i].calls
      ]_vars

\* the handler of a join that followed a pass waits for its only call, the
\* one for the new record
C19_Witness ==
    \E p \in Tasks :
        LET w == guilds_map[task[p].guild]
        IN /\ task[p].pc = "kick"
           /\ task[p].todo = 1
           /\ task[p].idx = Len(w)
           /\ Len(w) > MIN_USERS_JOIN
           /\ marks = Len(w) - 1

\* C20: while a handler waits for a call, the record it called is in the
\* window at the position the handler holds, the window has at least
\* MIN_USERS_JOIN records and all of them passed the handler's eviction; no
\* removal handler changes a window while a pass is in progress, the mark
\* after a call goes to the record that was called, and once every handler
\* has returned there are as many marks as calls.
C20_CallTargetsWindow ==
    /\ [](\A p \in Tasks :
             task[p].pc = "kick" =>
                 LET w == Window(task[p].guild)
                 IN /\ guilds_lock = p
                    /\ task[p].idx \in 1..Len(w)
                    /\ w[task[p].idx].calls = 1
                    /\ Len(w) >= MIN_USERS_JOIN
                    /\ \A j \in 1..Len(w) :
                          task[p].now - w[j].instant <= DEFAULT_SEARCH_DUR)
    /\ []((\A p \in Tasks : task[p].pc # "kick") => kicks = marks)
    /\ [][\A q \in Tasks :
            RemovalStep(q) => \A p \in Tasks : task[p].pc # "kick"
         ]_vars
    /\ [][\A p \in Tasks :
            CallReturnStep(p) =>
                LET w  == Window(task[p].guild)
                    w2 == guilds_map'[task[p].guild]
                IN /\ Len(w2) = Len(w)
                   /\ \A j \in 1..Len(w) : w2[j].id = w[j].id
                   /\ \A j \in 1..Len(w) :
                         w2[j].action_taken = (w[j].action_taken \/ j = task[p].idx)
         ]_vars

\* a removal event for a user whose record is pending, at or after the call
\* in flight, waits while the pass of its guild is in progress
C20_Witness ==
    \E p, q \in Tasks :
        /\ task[p].pc = "kick"
        /\ task[q].pc = "start"
        /\ task[q].kind = "removal"
        /\ task[q].guild = task[p].guild
        /\ \E j \in task[p].idx..Len(guilds_map[task[p].guild]) :
              /\ guilds_map[task[p].guild][j].member = task[q].user
              /\ ~guilds_map[task[p].guild][j].action_taken

\* C18: a removal handler deletes every pending record of its user, all of
\* them when there are several, and nothing else: every other record stays,
\* equal in every field and in its order, whatever its age; no call is
\* issued, no record is marked, the clock is not read and the other windows
\* are as they were.
C18_RemovalFrame ==
    [][\A p \in Tasks :
         RemovalStep(p) =>
             LET g  == task[p].guild
                 u  == task[p].user
                 w  == Entry(guilds_map, g)
                 w2 == guilds_map'[g]
                 gone == {i \in 1..Len(w) : w[i].member = u /\ ~w[i].action_taken}
             IN /\ Len(w2) = Len(w) - Cardinality(gone)
                /\ \A i \in gone : w[i].id \notin Ids(w2)
                /\ \A i \in (1..Len(w)) \ gone :
                      w2[i - Cardinality({k \in gone : k < i})] = w[i]
                /\ \A h \in DOMAIN guilds_map : h # g => guilds_map'[h] = guilds_map[h]
                /\ kicks' = kicks
                /\ marks' = marks
                /\ clock' = clock
                /\ guilds_lock' = 0
                /\ task'[p].pc = "idle"
      ]_vars

\* a removal handler has deleted two pending records of its user and left
\* a processed record of the same user that is older than DEFAULT_SEARCH_DUR
C18_Witness ==
    /\ last.dropped >= 2
    /\ last.spared >= 1
    /\ \E g \in DOMAIN guilds_map :
          \E i \in 1..Len(guilds_map[g]) :
              /\ guilds_map[g][i].action_taken
              /\ clock - guilds_map[g][i].instant > DEFAULT_SEARCH_DUR
====
